---- MODULE Spec2Model ----
(***************************************************************************)
(* Model of simple-react-agent.py: the credential set-up (_set_env), the   *)
(* one-node "chatbot" graph with its add_messages reducer, and the console *)
(* read loop with its bare except fallback.                                *)
(*                                                                         *)
(* Text is modelled as a sequence of one-character strings so that         *)
(* str.lower() and the keyword comparison are computed, not assumed.       *)
(***************************************************************************)
EXTENDS Integers, Sequences, FiniteSets, TLC

\* Bound on the number of lines the console delivers in one run.
MaxTurns == 3

----------------------------------------------------------------------------
\* Text helpers

UpperLetters ==
  <<"A","B","C","D","E","F","G","H","I","J","K","L","M",
    "N","O","P","Q","R","S","T","U","V","W","X","Y","Z">>

LowerLetters ==
  <<"a","b","c","d","e","f","g","h","i","j","k","l","m",
    "n","o","p","q","r","s","t","u","v","w","x","y","z">>

\* str.lower() on one character
lower_char(c) ==
  IF \E i \in 1..Len(UpperLetters) : UpperLetters[i] = c
  THEN LowerLetters[CHOOSE i \in 1..Len(UpperLetters) : UpperLetters[i] = c]
  ELSE c

\* str.lower()
lower(s) == [i \in 1..Len(s) |-> lower_char(s[i])]

\* the list literal ["exit", "quit", "q"]
ExitKeywords ==
  { <<"e","x","i","t">>, <<"q","u","i","t">>, <<"q">> }

\* A variant of the exit test that forgets .lower()
ExitCheckCaseSensitive(line) == line \in ExitKeywords

RECURSIVE lstrip(_)
lstrip(s) == IF s # <<>> /\ Head(s) = " " THEN lstrip(Tail(s)) ELSE s

RECURSIVE rstrip(_)
rstrip(s) ==
  IF s # <<>> /\ s[Len(s)] = " " THEN rstrip(SubSeq(s, 1, Len(s) - 1)) ELSE s

\* A variant of the exit test that trims the line first
ExitCheckStripped(line) == lower(lstrip(rstrip(line))) \in ExitKeywords

\* user_input.lower() in ["exit", "quit", "q"]
ExitCheck(line) == lower(line) \in ExitKeywords

\* "What do you know about LangGraph?"
FallbackQuestion ==
  <<"W","h","a","t"," ","d","o"," ","y","o","u"," ","k","n","o","w"," ",
    "a","b","o","u","t"," ","L","a","n","g","G","r","a","p","h","?">>

\* Lines the console may deliver to input()
Lines ==
  { <<"e","x","i","t">>, <<"E","X","I","T">>, <<"E","x","i","t">>,
    <<"q","u","i","t">>, <<"Q","u","I","t">>, <<"q">>, <<"Q">>,
    <<>>, <<" ","q">>, <<"e","x","i","t"," ">>, <<"H","e","l","l","o">>,
    FallbackQuestion }

\* Texts the remote model may return
Replies == { <<"h","i">>, <<"o","k">> }

----------------------------------------------------------------------------
\* Environment

EnvVars == {"OPENAI_API_KEY", "GROQ_API_KEY"}

\* os.environ.get(var) of a variable that is not in the environment
None == "<None>"

\* Values a variable may have when the script starts
InitialValues == {None, "", "preset"}

\* Values getpass may return
Typed == {"", "typed"}

\* A variant of _set_env that prompts unconditionally
IsSetNever(v) == FALSE

\* truthiness of os.environ.get(var)
IsSet(v) == v # None /\ v # ""

----------------------------------------------------------------------------
\* Messages and the reducer

HumanMessage(content) == [role |-> "human", content |-> content]

AIMessage(content) == [role |-> "assistant", content |-> content]

\* A reducer-less state key: the update overwrites the list
overwrite_messages(left, right) == right

\* Annotated[list, add_messages]: updates are appended to the list
add_messages(left, right) == left \o right

\* A variant of the node that returns the whole list with the reply
chatbot_returns_history(state, reply) == state \o <<AIMessage(reply)>>

\* def chatbot(state): return {"messages": [llm.invoke(state["messages"])]}
chatbot(state, reply) == <<AIMessage(reply)>>

\* A variant in which a run resumes from the state the previous run left
GraphInputCheckpointed(previous, text) ==
  add_messages(previous, <<HumanMessage(text)>>)

\* graph.stream({"messages": [HumanMessage(content=user_input)]}):
\* the run starts from an empty state, whatever the previous run left
GraphInput(previous, text) == add_messages(<<>>, <<HumanMessage(text)>>)

----------------------------------------------------------------------------
VARIABLES
  env,        \* os.environ restricted to the two keys
  stdout,     \* what has been written to the console, in order
  pc,         \* position of the script
  step,       \* position inside stream_graph_updates
  handler,    \* which statement raised into the except clause
  exit,       \* how the process ended
  user_input, \* the variable user_input
  messages,   \* state["messages"] of the current (or last) graph run
  event,      \* the update the chatbot node returned in this run
  lines,      \* lines input() has returned
  runs,       \* calls of stream_graph_updates
  calls       \* calls of llm.invoke: argument and result

vars == <<env, stdout, pc, step, handler, exit, user_input, messages, event,
          lines, runs, calls>>

Out(tag, text) == [tag |-> tag, text |-> text]

LoopStates == {"AWAITING_INPUT", "PROCESSING"}

Init ==
  /\ env \in [EnvVars -> InitialValues]
  /\ stdout = <<>>
  /\ pc = "SET_ENV_OPENAI"
  /\ step = "none"
  /\ handler = "none"
  /\ exit = "running"
  /\ user_input = <<>>
  /\ messages = <<>>
  /\ event = <<>>
  /\ lines = <<>>
  /\ runs = <<>>
  /\ calls = <<>>

----------------------------------------------------------------------------
\* _set_env

SetEnv(var, at, next) ==
  /\ pc = at
  /\ IF ~ IsSet(env[var])
     THEN \E typed \in Typed :
            /\ env' = [env EXCEPT ![var] = typed]
            /\ stdout' = Append(stdout, Out("Enter your", <<var>>))
     ELSE /\ env' = env
          /\ stdout' = Append(stdout, Out("already set", <<var>>))
  /\ pc' = next
  /\ UNCHANGED <<step, handler, exit, user_input, messages, event, lines,
                 runs, calls>>

SetEnvOpenAI == SetEnv("OPENAI_API_KEY", "SET_ENV_OPENAI", "SET_ENV_GROQ")

SetEnvGroq == SetEnv("GROQ_API_KEY", "SET_ENV_GROQ", "AWAITING_INPUT")

\* getpass raises (no terminal): nothing catches it at module level
GetpassRaises ==
  /\ \/ pc = "SET_ENV_OPENAI" /\ ~ IsSet(env["OPENAI_API_KEY"])
     \/ pc = "SET_ENV_GROQ" /\ ~ IsSet(env["GROQ_API_KEY"])
  /\ pc' = "TERMINATED"
  /\ exit' = "uncaught"
  /\ UNCHANGED <<env, stdout, step, handler, user_input, messages, event,
                 lines, runs, calls>>

----------------------------------------------------------------------------
\* The read loop

\* A variant of the exit branch that prints the farewell and loops on
AfterGoodbyeContinue == "AWAITING_INPUT"

\* break after print("Goodbye!")
AfterGoodbye == "TERMINATED"

\* input() returns an exit keyword
ReadExit ==
  /\ pc = "AWAITING_INPUT"
  /\ Len(lines) < MaxTurns
  /\ \E line \in Lines :
       /\ ExitCheck(line)
       /\ lines' = Append(lines, line)
       /\ user_input' = line
       /\ stdout' = stdout \o <<Out("User: ", <<>>), Out("Goodbye!", <<>>)>>
  /\ pc' = AfterGoodbye
  /\ exit' = IF pc' = "TERMINATED" THEN "normal" ELSE exit
  /\ UNCHANGED <<env, step, handler, messages, event, runs, calls>>

\* input() returns any other line: stream_graph_updates(user_input) starts
ReadTurn ==
  /\ pc = "AWAITING_INPUT"
  /\ Len(lines) < MaxTurns
  /\ \E line \in Lines :
       /\ ~ ExitCheck(line)
       /\ lines' = Append(lines, line)
       /\ user_input' = line
       /\ messages' = GraphInput(messages, line)
       /\ runs' = Append(runs, [text |-> line, fallback |-> FALSE])
  /\ stdout' = Append(stdout, Out("User: ", <<>>))
  /\ event' = <<>>
  /\ pc' = "PROCESSING"
  /\ step' = "chatbot"
  /\ UNCHANGED <<env, handler, exit, calls>>

\* the except clause up to the start of its stream_graph_updates call
EnterHandler(cause, out) ==
  /\ handler' = cause
  /\ user_input' = FallbackQuestion
  /\ stdout' = out \o <<Out("User: ", FallbackQuestion)>>
  /\ messages' = GraphInput(messages, FallbackQuestion)
  /\ runs' = Append(runs, [text |-> FallbackQuestion, fallback |-> TRUE])
  /\ event' = <<>>
  /\ pc' = "PROCESSING"
  /\ step' = "chatbot"

\* input() raises
ReadRaises ==
  /\ pc = "AWAITING_INPUT"
  /\ EnterHandler("input", Append(stdout, Out("User: ", <<>>)))
  /\ UNCHANGED <<env, exit, lines, calls>>

----------------------------------------------------------------------------
\* The graph run

\* the chatbot node returns; the reducer merges its update
ChatbotReturns ==
  /\ pc = "PROCESSING"
  /\ step = "chatbot"
  /\ \E r \in Replies :
       /\ calls' = Append(calls, [input |-> messages,
                                   result |-> <<AIMessage(r)>>])
       /\ event' = chatbot(messages, r)
       /\ messages' = add_messages(messages, chatbot(messages, r))
  /\ step' = "print"
  /\ UNCHANGED <<env, stdout, pc, handler, exit, user_input, lines, runs>>

\* A variant in which the except clause also guards its own call
OnRaiseAlwaysCaught(h) == "caught"

\* line 97 is inside the try, line 102 is inside the except clause
OnRaise(h) == IF h = "none" THEN "caught" ELSE "uncaught"

\* llm.invoke raises
ChatbotRaises ==
  /\ pc = "PROCESSING"
  /\ step = "chatbot"
  /\ calls' = Append(calls, [input |-> messages, result |-> <<>>])
  /\ IF OnRaise(handler) = "caught"
     THEN /\ EnterHandler("turn", stdout)
          /\ UNCHANGED exit
     ELSE /\ pc' = "TERMINATED"
          /\ exit' = "uncaught"
          /\ step' = "none"
          /\ UNCHANGED <<handler, user_input, stdout, messages, runs, event>>
  /\ UNCHANGED <<env, lines>>

\* A variant of the handler without its break
AfterRunNoBreak(h) == "AWAITING_INPUT"

\* back to the head of the loop after line 97, break after line 102
AfterRun(h) == IF h = "none" THEN "AWAITING_INPUT" ELSE "TERMINATED"

\* print("Assistant: ", value["messages"][-1].content); the generator ends
PrintReply ==
  /\ pc = "PROCESSING"
  /\ step = "print"
  /\ stdout' = Append(stdout, Out("Assistant: ", event[Len(event)].content))
  /\ step' = "none"
  /\ pc' = AfterRun(handler)
  /\ exit' = IF pc' = "TERMINATED" THEN "normal" ELSE exit
  /\ UNCHANGED <<env, handler, user_input, messages, event, lines, runs,
                 calls>>

Next ==
  \/ SetEnvOpenAI
  \/ SetEnvGroq
  \/ GetpassRaises
  \/ ReadExit
  \/ ReadTurn
  \/ ReadRaises
  \/ ChatbotReturns
  \/ ChatbotRaises
  \/ PrintReply

Spec == Init /\ [][Next]_vars

\* A started remote call returns or raises, and a returned reply is printed;
\* nothing is assumed about the console ever delivering a line.
FairSpec ==
  Spec /\ WF_vars(ChatbotReturns \/ ChatbotRaises) /\ WF_vars(PrintReply)

TypeOK ==
  /\ pc \in {"SET_ENV_OPENAI", "SET_ENV_GROQ", "TERMINATED"} \cup LoopStates
  /\ step \in {"none", "chatbot", "print"}
  /\ handler \in {"none", "input", "turn"}
  /\ exit \in {"running", "normal", "uncaught"}
  /\ Len(lines) <= MaxTurns

----------------------------------------------------------------------------
\* Vocabulary of the properties

\* line equals keyword kw up to letter case, character by character
EqualsAnyCase(line, kw) ==
  /\ Len(line) = Len(kw)
  /\ \A i \in 1..Len(kw) :
       \/ line[i] = kw[i]
       \/ \E j \in 1..Len(LowerLetters) :
            LowerLetters[j] = kw[i] /\ UpperLetters[j] = line[i]

IsKeywordAnyCase(line) == \E kw \in ExitKeywords : EqualsAnyCase(line, kw)

\* this step is a successful input() call
LineRead == pc = "AWAITING_INPUT" /\ Len(lines') = Len(lines) + 1

LastLine == lines[Len(lines)]

AssistantLines == {i \in 1..Len(stdout) : stdout[i].tag = "Assistant: "}

FallbackRuns == {k \in 1..Len(runs) : runs[k].fallback}

HasValue(v) == v # None /\ v # ""

\* the transcript of the first n runs: each human message and its reply
RECURSIVE Transcript(_)
Transcript(n) ==
  IF n = 0 THEN <<>>
  ELSE Transcript(n - 1)
         \o <<[role |-> "human", content |-> runs[n].text]>>
         \o calls[n].result

----------------------------------------------------------------------------
C3_ExitKeywordTerminates ==
  /\ [][(LineRead /\ IsKeywordAnyCase(lines'[Len(lines')])) =>
          /\ pc' = "TERMINATED"
          /\ exit' = "normal"
          /\ calls' = calls
          /\ runs' = runs
          /\ stdout'[Len(stdout')].tag = "Goodbye!"]_vars
  /\ [](  (pc = "TERMINATED" /\ Len(lines) = 1 /\ IsKeywordAnyCase(lines[1]))
       => (calls = <<>> /\ runs = <<>>))

C3_Witness ==
  /\ pc = "TERMINATED"
  /\ exit = "normal"
  /\ Len(lines) = 2
  /\ LastLine = <<"Q","u","I","t">>
  /\ Len(calls) = 1

\* C4 (as stated): after a Turn Processor call has failed there is no
\* further Turn Processor call in the run.
C4_NoCallAfterFailedCall ==
  \A k \in 1..Len(calls) : calls[k].result = <<>> => k = Len(calls)

\* C5: once reading a line has failed, the fixed question is substituted,
\* exactly one turn is run with it, no further line is read, and the loop
\* ends.
C5_InputFailureOneFallbackTurn ==
  /\ [](handler = "input" =>
          /\ pc # "AWAITING_INPUT"
          /\ Cardinality(FallbackRuns) = 1
          /\ runs[Len(runs)].fallback
          /\ runs[Len(runs)].text = FallbackQuestion
          /\ user_input = FallbackQuestion
          /\ Len(runs) = Len(lines) + 1)
  /\ [][(handler = "input") => (lines' = lines)]_vars
  /\ [](  (handler = "input" /\ pc = "TERMINATED")
       => /\ Len(calls) = Len(runs)
          /\ calls[Len(calls)].input
               = <<[role |-> "human", content |-> FallbackQuestion]>>)
  /\ (handler = "input") ~> (pc = "TERMINATED")

C5_Witness ==
  /\ handler = "input"
  /\ pc = "TERMINATED"
  /\ exit = "normal"
  /\ Len(lines) = 2
  /\ stdout[Len(stdout)].tag = "Assistant: "

\* C6: a turn for a non-exit line is, in order: the human message enters
\* the state, the Turn Processor is called once, one assistant message is
\* appended after the human message, one "Assistant:" line with the
\* reply's content is printed, and the loop awaits input again.
C6_TurnOrder ==
  /\ [](  (handler = "none" /\ pc = "PROCESSING" /\ step = "chatbot")
       => /\ messages = <<[role |-> "human", content |-> LastLine]>>
          /\ Len(calls) = Len(lines) - 1
          /\ Cardinality(AssistantLines) = Len(lines) - 1)
  /\ [](  (handler = "none" /\ pc = "PROCESSING" /\ step = "print")
       => /\ Len(calls) = Len(lines)
          /\ Len(messages) = 2
          /\ messages[1] = [role |-> "human", content |-> LastLine]
          /\ messages[2].role = "assistant"
          /\ <<messages[2]>> = calls[Len(calls)].result
          /\ Cardinality(AssistantLines) = Len(lines) - 1)
  /\ [](  (handler = "none" /\ pc = "AWAITING_INPUT" /\ Len(lines) >= 1)
       => /\ Len(calls) = Len(lines)
          /\ Cardinality(AssistantLines) = Len(lines)
          /\ stdout[Len(stdout)]
               = [tag |-> "Assistant: ", text |-> messages[2].content])
  /\ [][(handler = "none" /\ pc = "PROCESSING" /\ step = "print")
          => pc' = "AWAITING_INPUT"]_vars
  /\ [][(handler = "none" /\ pc = "PROCESSING" /\ step = "chatbot")
          => (Len(calls') = Len(calls) + 1 /\ lines' = lines)]_vars

C6_Witness ==
  /\ handler = "none"
  /\ pc = "AWAITING_INPUT"
  /\ Len(lines) = 2
  /\ lines[1] = <<"H","e","l","l","o">>
  /\ messages[2].content = <<"o","k">>

\* C7: the loop is entered in AWAITING_INPUT, and after the farewell or the
\* fallback turn the loop is in TERMINATED, where no line is read, no Turn
\* Processor call is made and no message is added.
C7_TerminatedIsAbsorbing ==
  /\ [][(pc \notin LoopStates /\ pc' \in LoopStates)
          => (pc' = "AWAITING_INPUT" /\ pc # "TERMINATED")]_vars
  /\ [][pc = "TERMINATED"
          => UNCHANGED <<pc, lines, calls, runs, messages, stdout>>]_vars
  /\ []((\E i \in 1..Len(stdout) : stdout[i].tag = "Goodbye!")
          => pc = "TERMINATED")
  /\ []((handler # "none" /\ step = "none") => pc = "TERMINATED")

C7_Witness ==
  /\ pc = "TERMINATED"
  /\ Len(calls) = 2
  /\ Len(lines) = 3
  /\ LastLine = <<"q">>
  /\ stdout[Len(stdout)].tag = "Goodbye!"

\* C8: both keys are in the environment before the loop starts; _set_env
\* leaves a variable that has a value unchanged without prompting, sets an
\* absent one from the prompt, and no step of the loop changes either.
SetEnvEffect(var) ==
  /\ \A w \in EnvVars \ {var} : env'[w] = env[w]
  /\ HasValue(env[var]) =>
       /\ env'[var] = env[var]
       /\ stdout'[Len(stdout')].tag # "Enter your"
  /\ env[var] = None =>
       /\ env'[var] \in Typed
       /\ stdout'[Len(stdout')] = [tag |-> "Enter your", text |-> <<var>>]

C8_KeysSetOnceBeforeLoop ==
  /\ [](pc \in LoopStates => \A v \in EnvVars : env[v] # None)
  /\ [][(pc = "SET_ENV_OPENAI" /\ pc' = "SET_ENV_GROQ")
          => SetEnvEffect("OPENAI_API_KEY")]_vars
  /\ [][(pc = "SET_ENV_GROQ" /\ pc' = "AWAITING_INPUT")
          => SetEnvEffect("GROQ_API_KEY")]_vars
  /\ [][(pc \in LoopStates) => (env' = env)]_vars

C8_Witness ==
  /\ pc = "TERMINATED"
  /\ handler = "input"
  /\ Len(calls) = 2
  /\ Len(stdout) >= 2
  /\ stdout[1] = [tag |-> "already set", text |-> <<"OPENAI_API_KEY">>]
  /\ stdout[2] = [tag |-> "Enter your", text |-> <<"GROQ_API_KEY">>]
  /\ env = [v \in EnvVars |->
              IF v = "OPENAI_API_KEY" THEN "preset" ELSE "typed"]

\* C9: whichever statement raises, the fallback question is run at most
\* once and as the last turn, and a failure of the fallback turn itself is
\* not caught: the process ends without a second fallback.
C9_FallbackAtMostOnce ==
  /\ [](Cardinality(FallbackRuns) <= 1)
  /\ [](\A k \in FallbackRuns : k = Len(runs))
  /\ [](handler # "none" <=> FallbackRuns # {})
  /\ [][(handler # "none" /\ step = "chatbot"
          /\ Len(calls') = Len(calls) + 1
          /\ calls'[Len(calls')].result = <<>>)
          => (pc' = "TERMINATED" /\ exit' = "uncaught" /\ runs' = runs)]_vars

C9_Witness ==
  /\ pc = "TERMINATED"
  /\ exit = "uncaught"
  /\ handler = "turn"
  /\ Len(calls) = 3
  /\ calls[2].result = <<>>
  /\ calls[3].result = <<>>

\* C10: a line that is not exactly a keyword up to letter case (the empty
\* line, a keyword with leading or trailing blanks) is not trimmed: it is
\* run as a normal turn with one Turn Processor call and the loop goes on.
C10_OnlyExactKeywordsExit ==
  /\ [][(LineRead /\ ~ IsKeywordAnyCase(lines'[Len(lines')])) =>
          /\ pc' = "PROCESSING"
          /\ step' = "chatbot"
          /\ exit' = "running"
          /\ Len(runs') = Len(runs) + 1
          /\ messages'
               = <<[role |-> "human", content |-> lines'[Len(lines')]]>>]_vars
  /\ [](  (handler = "none" /\ pc = "AWAITING_INPUT")
       => /\ Len(calls) = Len(lines)
          /\ \A k \in 1..Len(lines) :
               calls[k].input = <<[role |-> "human", content |-> lines[k]]>>)

C10_Witness ==
  /\ pc = "AWAITING_INPUT"
  /\ Len(lines) = 3
  /\ lines[1] = <<" ","q">>
  /\ lines[2] = <<>>
  /\ lines[3] = <<"e","x","i","t"," ">>
  /\ Len(calls) = 3
====
